---- MODULE Spec2Model ----
(***************************************************************************)
(* Model of student_code.py: the class chain                               *)
(*   Digraph -> SortableDigraph -> TraversableDigraph -> DAG.              *)
(* One graph object is modelled.  cls records which class it was built     *)
(* from ("Digraph" stands for the three classes that share                 *)
(* Digraph.add_edge, "DAG" for the class that overrides it).               *)
(*                                                                         *)
(* Python values:                                                          *)
(*   dict            a function; its key set is DOMAIN                     *)
(*   list / deque    a sequence                                            *)
(*   set             a set                                                 *)
(*   **kwargs        a set of <<name, value>> pairs with unique names      *)
(*   None            the string "None"                                     *)
(*   generator       a record holding the frame of bfs between two pulls   *)
(*                                                                         *)
(* get_nodes and __repr__ expose the insertion order of the dict keys,     *)
(* which a function does not keep; they are not modelled.                  *)
(***************************************************************************)
EXTENDS Integers, Sequences, FiniteSets, TLC

\* Node identifiers, compared by <.
Nodes == {1, 2, 3}
\* At most MaxEdges keys in self.edges.
MaxEdges == 3
\* At most MaxAnnot node values / edge attribute mappings that are not the default.
MaxAnnot == 1

NoneVal == "None"
NodeAttrs == {NoneVal, "v1"}
Kwargs == { {}, {<<"weight", "w1">>}, {<<"edge_weight", "w2">>} }

VARIABLES
    cls,     \* class of the object: "Digraph" or "DAG"
    adj,     \* self.adj   : node -> list of successors, in insertion order
    nodes,   \* self.nodes : node -> attached value
    edges,   \* self.edges : <<start, end>> -> kwargs
    call,    \* the last call made on the object
    exc,     \* what that call raised: "none", "KeyError", "ValueError", "StopIteration"
    ret,     \* the list the last call returned (<<>> when it returned none)
    val,     \* the scalar the last call returned, or yielded (NoneVal otherwise)
    gen      \* the generator object returned by the last bfs call

vars == <<cls, adj, nodes, edges, call, exc, ret, val, gen>>

----------------------------------------------------------------------------
\* Python built-ins

Range(s) == {s[i] : i \in DOMAIN s}

\* d[k] = v
DictSet(d, k, v) == [x \in DOMAIN d \cup {k} |-> IF x = k THEN v ELSE d[x]]

\* d.get(k) on a kwargs mapping
DictGet(d, k) ==
    IF \E p \in d : p[1] = k THEN (CHOOSE p \in d : p[1] = k)[2] ELSE NoneVal

\* list(d.keys()): the keys in some order (every use sorts them)
RECURSIVE keys(_)
keys(S) == IF S = {} THEN <<>>
           ELSE LET k == CHOOSE x \in S : TRUE IN <<k>> \o keys(S \ {k})

Insert(x, s) ==
    LET k == Cardinality({i \in DOMAIN s : s[i] <= x})
    IN SubSeq(s, 1, k) \o <<x>> \o SubSeq(s, k + 1, Len(s))

\* sorted(s)
RECURSIVE sorted(_)
sorted(s) == IF s = <<>> THEN <<>> ELSE Insert(Head(s), sorted(Tail(s)))

\* sorted(s, reverse=True)
sorted_reverse(s) ==
    LET t == sorted(s) IN [i \in 1..Len(t) |-> t[Len(t) + 1 - i]]

----------------------------------------------------------------------------
\* Digraph.  A graph value G is the record [adj, nodes, edges] of the three dicts.

EmptyFn == [x \in {} |-> NoneVal]

\* Digraph.__init__
Digraph_init == [adj |-> EmptyFn, nodes |-> EmptyFn, edges |-> EmptyFn]


\* add_node that stores attrs even when the node is already there
add_node_overwrite(G, node, attrs) ==
    IF node \notin DOMAIN G.adj
    THEN [G EXCEPT !.adj = DictSet(@, node, <<>>),
                   !.nodes = DictSet(@, node, attrs)]
    ELSE [G EXCEPT !.nodes = DictSet(@, node, attrs)]

\* add_node that forgets self.nodes[node] = attrs
add_node_adj_only(G, node, attrs) ==
    IF node \notin DOMAIN G.adj
    THEN [G EXCEPT !.adj = DictSet(@, node, <<>>)]
    ELSE G

\* Digraph.add_node
add_node(G, node, attrs) ==
    IF node \notin DOMAIN G.adj
    THEN [G EXCEPT !.adj = DictSet(@, node, <<>>),
                   !.nodes = DictSet(@, node, attrs)]
    ELSE G


\* add_edge that appends end_node without testing whether it is already listed
add_edge_append_always(G, start_node, end_node, kwargs) ==
    LET G1 == add_node(G, start_node, NoneVal)
        G2 == add_node(G1, end_node, NoneVal)
    IN [G2 EXCEPT !.adj = [@ EXCEPT ![start_node] = Append(@, end_node)],
                  !.edges = DictSet(@, <<start_node, end_node>>, kwargs)]

\* add_edge that forgets self.add_node(end_node)
add_edge_no_end_node(G, start_node, end_node, kwargs) ==
    LET G1 == add_node(G, start_node, NoneVal)
        adj2 == IF end_node \notin Range(G1.adj[start_node])
                THEN [G1.adj EXCEPT ![start_node] = Append(@, end_node)]
                ELSE G1.adj
    IN [G1 EXCEPT !.adj = adj2,
                  !.edges = DictSet(@, <<start_node, end_node>>, kwargs)]

\* Digraph.add_edge
add_edge(G, start_node, end_node, kwargs) ==
    LET G1 == add_node(G, start_node, NoneVal)
        G2 == add_node(G1, end_node, NoneVal)
        adj2 == IF end_node \notin Range(G2.adj[start_node])
                THEN [G2.adj EXCEPT ![start_node] = Append(@, end_node)]
                ELSE G2.adj
    IN [G2 EXCEPT !.adj = adj2,
                  !.edges = DictSet(@, <<start_node, end_node>>, kwargs)]

\* Digraph.get_node_value
get_node_value(G, node) ==
    IF node \in DOMAIN G.nodes THEN G.nodes[node] ELSE NoneVal


\* get_edge_weight that reads the attribute named "weight"
get_edge_weight_weight(G, start_node, end_node) ==
    LET edge_attrs == IF <<start_node, end_node>> \in DOMAIN G.edges
                      THEN G.edges[<<start_node, end_node>>] ELSE {}
    IN DictGet(edge_attrs, "weight")

\* Digraph.get_edge_weight
get_edge_weight(G, start_node, end_node) ==
    LET edge_attrs == IF <<start_node, end_node>> \in DOMAIN G.edges
                      THEN G.edges[<<start_node, end_node>>] ELSE {}
    IN DictGet(edge_attrs, "edge_weight")

\* successors written with self.adj.get(node, []): an absent node raises nothing
successors_get(a, node) ==
    [exc |-> "none", ret |-> sorted(IF node \in DOMAIN a THEN a[node] ELSE <<>>)]

\* Digraph.successors
successors(a, node) ==
    IF node \notin DOMAIN a
    THEN [exc |-> "KeyError", ret |-> <<>>]
    ELSE [exc |-> "none", ret |-> sorted(a[node])]

\* Digraph.predecessors
predecessors(a, node) ==
    IF node \notin DOMAIN a
    THEN [exc |-> "KeyError", ret |-> <<>>]
    ELSE [exc |-> "none",
          ret |-> sorted(keys({u \in DOMAIN a : node \in Range(a[u])}))]

----------------------------------------------------------------------------
\* SortableDigraph.top_sort.  st is the pair of closure variables
\* [visited, sorted_order] shared by the calls of visit.

RECURSIVE visit(_, _, _), visit_each(_, _, _)
\* visit written with sorted_order.append(node): a post-order, not its reverse
visit_append(a, node, st) ==
    IF node \notin st.visited
    THEN LET s1 == [st EXCEPT !.visited = @ \cup {node}]
             s2 == visit_each(a, sorted(IF node \in DOMAIN a THEN a[node] ELSE <<>>), s1)
         IN [s2 EXCEPT !.sorted_order = Append(@, node)]
    ELSE st

\* the helper visit(node)
visit(a, node, st) ==
    IF node \notin st.visited
    THEN LET s1 == [st EXCEPT !.visited = @ \cup {node}]
             s2 == visit_each(a, sorted(IF node \in DOMAIN a THEN a[node] ELSE <<>>), s1)
         IN [s2 EXCEPT !.sorted_order = <<node>> \o @]
    ELSE st

\* for n in ns: visit(n)
visit_each(a, ns, st) ==
    IF ns = <<>> THEN st ELSE visit_each(a, Tail(ns), visit(a, Head(ns), st))

\* top_sort when list(self.adj.keys()) is the sequence ks
top_sort_keys(a, ks) ==
    visit_each(a, sorted(ks), [visited |-> {}, sorted_order |-> <<>>]).sorted_order

\* top_sort that starts visits only at the nodes without predecessors
top_sort_from_roots(a) ==
    top_sort_keys(a, keys({n \in DOMAIN a : \A u \in DOMAIN a : n \notin Range(a[u])}))

top_sort(a) == top_sort_keys(a, keys(DOMAIN a))

----------------------------------------------------------------------------
\* TraversableDigraph.dfs

\* the while loop of dfs; the top of the stack is its last element
RECURSIVE dfs_loop(_, _, _, _)
dfs_loop(a, stack, visited, path) ==
    IF stack = <<>> THEN path
    ELSE LET node == stack[Len(stack)]
             rest == SubSeq(stack, 1, Len(stack) - 1)
         IN IF node \notin visited
            THEN LET v2 == visited \cup {node}
                     push == SelectSeq(sorted_reverse(a[node]),
                                       LAMBDA n : n \notin v2)
                 IN dfs_loop(a, rest \o push, v2, Append(path, node))
            ELSE dfs_loop(a, rest, visited, path)


\* s reversed
Reverse(s) == [i \in 1..Len(s) |-> s[Len(s) + 1 - i]]

\* the while loop of a dfs that pushes the neighbours in list order, unsorted
RECURSIVE dfs_loop_unsorted(_, _, _, _)
dfs_loop_unsorted(a, stack, visited, path) ==
    IF stack = <<>> THEN path
    ELSE LET node == stack[Len(stack)]
             rest == SubSeq(stack, 1, Len(stack) - 1)
         IN IF node \notin visited
            THEN LET v2 == visited \cup {node}
                     push == SelectSeq(Reverse(a[node]), LAMBDA n : n \notin v2)
                 IN dfs_loop_unsorted(a, rest \o push, v2, Append(path, node))
            ELSE dfs_loop_unsorted(a, rest, visited, path)

\* dfs written with reversed(self.adj[node]) in place of sorted(..., reverse=True)
dfs_unsorted(a, start_node) ==
    IF start_node \notin DOMAIN a
    THEN [exc |-> "KeyError", ret |-> <<>>]
    ELSE [exc |-> "none",
          ret |-> dfs_loop_unsorted(a, Reverse(a[start_node]), {start_node}, <<>>)]


\* the while loop of a dfs that pushes the neighbours in ascending order
RECURSIVE dfs_loop_ascending(_, _, _, _)
dfs_loop_ascending(a, stack, visited, path) ==
    IF stack = <<>> THEN path
    ELSE LET node == stack[Len(stack)]
             rest == SubSeq(stack, 1, Len(stack) - 1)
         IN IF node \notin visited
            THEN LET v2 == visited \cup {node}
                     push == SelectSeq(sorted(a[node]), LAMBDA n : n \notin v2)
                 IN dfs_loop_ascending(a, rest \o push, v2, Append(path, node))
            ELSE dfs_loop_ascending(a, rest, visited, path)

\* dfs written with sorted(...) in place of sorted(..., reverse=True)
dfs_ascending(a, start_node) ==
    IF start_node \notin DOMAIN a
    THEN [exc |-> "KeyError", ret |-> <<>>]
    ELSE [exc |-> "none",
          ret |-> dfs_loop_ascending(a, sorted(a[start_node]), {start_node}, <<>>)]

\* dfs that never pushes the neighbours of a popped node: direct successors only
dfs_direct(a, start_node) ==
    IF start_node \notin DOMAIN a
    THEN [exc |-> "KeyError", ret |-> <<>>]
    ELSE [exc |-> "none",
          ret |-> SelectSeq(sorted(a[start_node]), LAMBDA n : n # start_node)]

dfs(a, start_node) ==
    IF start_node \notin DOMAIN a
    THEN [exc |-> "KeyError", ret |-> <<>>]
    ELSE [exc |-> "none",
          ret |-> dfs_loop(a, sorted_reverse(a[start_node]), {start_node}, <<>>)]


----------------------------------------------------------------------------
\* TraversableDigraph.bfs, a generator function.  Calling it runs none of its
\* body: it returns a generator object whose frame is started by the first pull.

\* bfs(start_node): the generator object the call returns
bfs(start_node) ==
    [state |-> "created", start |-> start_node, visited |-> {}, queue |-> <<>>,
     node |-> 0]

\* for neighbor in ns: if neighbor not in visited: visited.add; queue.append
RECURSIVE bfs_expand(_, _)
bfs_expand(ns, g) ==
    IF ns = <<>> THEN g
    ELSE IF Head(ns) \notin g.visited
         THEN bfs_expand(Tail(ns), [g EXCEPT !.visited = @ \cup {Head(ns)},
                                             !.queue = Append(@, Head(ns))])
         ELSE bfs_expand(Tail(ns), g)


\* the loop written with queue.pop(): the newest node is taken, not the oldest
bfs_loop_lifo(g) ==
    IF g.queue = <<>>
    THEN [gen |-> [g EXCEPT !.state = "done"], exc |-> "StopIteration", ret |-> <<>>]
    ELSE [gen |-> [g EXCEPT !.state = "suspended", !.node = g.queue[Len(g.queue)],
                            !.queue = SubSeq(g.queue, 1, Len(g.queue) - 1)],
          exc |-> "none", ret |-> <<g.queue[Len(g.queue)]>>]

\* while queue: node = queue.popleft(); yield node
bfs_loop(g) ==
    IF g.queue = <<>>
    THEN [gen |-> [g EXCEPT !.state = "done"], exc |-> "StopIteration", ret |-> <<>>]
    ELSE [gen |-> [g EXCEPT !.state = "suspended", !.node = Head(g.queue),
                            !.queue = Tail(g.queue)],
          exc |-> "none", ret |-> <<Head(g.queue)>>]


\* the loop of a bfs that enqueues the successors of a node before it yields it
bfs_loop_eager(a, g) ==
    IF g.queue = <<>>
    THEN [gen |-> [g EXCEPT !.state = "done"], exc |-> "StopIteration", ret |-> <<>>]
    ELSE LET node == Head(g.queue)
             g1 == bfs_expand(sorted(a[node]), [g EXCEPT !.queue = Tail(g.queue)])
         IN [gen |-> [g1 EXCEPT !.state = "suspended", !.node = node],
             exc |-> "none", ret |-> <<node>>]

\* next(g) for that bfs
bfs_next_eager(a, g) ==
    IF g.state = "created"
    THEN IF g.start \notin DOMAIN a
         THEN [gen |-> [g EXCEPT !.state = "done"], exc |-> "KeyError", ret |-> <<>>]
         ELSE LET queue == sorted(a[g.start])
              IN bfs_loop_eager(a, [g EXCEPT !.visited = {g.start} \cup Range(queue),
                                             !.queue = queue])
    ELSE IF g.state = "suspended"
    THEN bfs_loop_eager(a, g)
    ELSE [gen |-> g, exc |-> "StopIteration", ret |-> <<>>]

\* next(g): run the frame of g up to its next yield, raise or return
bfs_next(a, g) ==
    IF g.state = "created"
    THEN IF g.start \notin DOMAIN a
         THEN [gen |-> [g EXCEPT !.state = "done"], exc |-> "KeyError", ret |-> <<>>]
         ELSE LET queue == sorted(a[g.start])
              IN bfs_loop([g EXCEPT !.visited = {g.start} \cup Range(queue),
                                    !.queue = queue])
    ELSE IF g.state = "suspended"
    THEN bfs_loop(bfs_expand(sorted(a[g.node]), g))
    ELSE [gen |-> g, exc |-> "StopIteration", ret |-> <<>>]

\* list(g): pull until the generator stops or raises
RECURSIVE drain(_, _, _)
drain(a, g, out) ==
    LET r == bfs_next(a, g)
    IN IF r.exc = "none" THEN drain(a, r.gen, out \o r.ret)
       ELSE IF r.exc = "StopIteration" THEN [exc |-> "none", ret |-> out]
       ELSE [exc |-> r.exc, ret |-> <<>>]

\* list(self.bfs(start_node))
list_bfs(a, start_node) == drain(a, bfs(start_node), <<>>)

----------------------------------------------------------------------------
\* DAG.add_edge: the graph it leaves and what it raises

\* DAG.add_edge that inserts the edge first and checks afterwards, without undoing it
DAG_add_edge_insert_first(G, start_node, end_node, kwargs) ==
    LET G3 == add_edge(G, start_node, end_node, kwargs)
    IN IF start_node = end_node \/ start_node \in Range(dfs(G3.adj, end_node).ret)
       THEN [G |-> G3, exc |-> "ValueError"]
       ELSE [G |-> G3, exc |-> "none"]

\* DAG.add_edge that calls super().add_edge(start_node, end_node) without **kwargs
DAG_add_edge_drop_kwargs(G, start_node, end_node, kwargs) ==
    LET G2 == add_node(add_node(G, start_node, NoneVal), end_node, NoneVal)
    IN IF start_node = end_node \/ start_node \in Range(dfs(G2.adj, end_node).ret)
       THEN [G |-> G2, exc |-> "ValueError"]
       ELSE [G |-> add_edge(G2, start_node, end_node, {}), exc |-> "none"]

\* DAG.add_edge without the start_node == end_node test
DAG_add_edge_no_self_check(G, start_node, end_node, kwargs) ==
    LET G2 == add_node(add_node(G, start_node, NoneVal), end_node, NoneVal)
    IN IF start_node \in Range(dfs(G2.adj, end_node).ret)
       THEN [G |-> G2, exc |-> "ValueError"]
       ELSE [G |-> add_edge(G2, start_node, end_node, kwargs), exc |-> "none"]

DAG_add_edge(G, start_node, end_node, kwargs) ==
    LET G2 == add_node(add_node(G, start_node, NoneVal), end_node, NoneVal)
    IN IF start_node = end_node \/ start_node \in Range(dfs(G2.adj, end_node).ret)
       THEN [G |-> G2, exc |-> "ValueError"]
       ELSE [G |-> add_edge(G2, start_node, end_node, kwargs), exc |-> "none"]

----------------------------------------------------------------------------
\* The object and its caller.  The caller makes one call at a time: it is
\* idle (call.op = "idle"), makes a call and holds what the call returned or
\* raised, then discards it.  A generator lives until the caller discards it.

Graph == [adj |-> adj, nodes |-> nodes, edges |-> edges]

NoGen == [state |-> "none", start |-> 0, visited |-> {}, queue |-> <<>>, node |-> 0]

Call(op, a, b, attr, kw) == [op |-> op, a |-> a, b |-> b, attr |-> attr, kw |-> kw]

Idle == Call("idle", 0, 0, NoneVal, {})

\* The bounds on the graphs explored
Annotations(G) ==
    Cardinality({n \in DOMAIN G.nodes : G.nodes[n] # NoneVal})
    + Cardinality({e \in DOMAIN G.edges : G.edges[e] # {}})

Bounded(G) ==
    /\ Cardinality(DOMAIN G.edges) <= MaxEdges
    /\ Annotations(G) <= MaxAnnot

Init ==
    /\ cls \in {"Digraph", "DAG"}
    /\ adj = Digraph_init.adj
    /\ nodes = Digraph_init.nodes
    /\ edges = Digraph_init.edges
    /\ call = Idle
    /\ exc = "none"
    /\ ret = <<>>
    /\ val = NoneVal
    /\ gen = NoGen

\* a call that leaves the graph as it is
Query(c, e, r, v) ==
    /\ call = Idle
    /\ call' = c /\ exc' = e /\ ret' = r /\ val' = v
    /\ UNCHANGED <<cls, adj, nodes, edges, gen>>

\* a call that leaves the graph G
Mutation(c, e, G) ==
    /\ call = Idle
    /\ Bounded(G)
    /\ adj' = G.adj /\ nodes' = G.nodes /\ edges' = G.edges
    /\ call' = c /\ exc' = e /\ ret' = <<>> /\ val' = NoneVal
    /\ UNCHANGED <<cls, gen>>

AddNode ==
    \E n \in Nodes, attrs \in NodeAttrs :
        Mutation(Call("add_node", n, 0, attrs, {}), "none", add_node(Graph, n, attrs))

AddEdge ==
    \E s \in Nodes, e \in Nodes, kw \in Kwargs :
        /\ cls = "Digraph"
        /\ Mutation(Call("add_edge", s, e, NoneVal, kw), "none",
                    add_edge(Graph, s, e, kw))

DagAddEdge ==
    \E s \in Nodes, e \in Nodes, kw \in Kwargs :
        LET r == DAG_add_edge(Graph, s, e, kw) IN
        /\ cls = "DAG"
        /\ Mutation(Call("add_edge", s, e, NoneVal, kw), r.exc, r.G)

GetNodeValue ==
    \E n \in Nodes :
        Query(Call("get_node_value", n, 0, NoneVal, {}), "none", <<>>,
              get_node_value(Graph, n))

GetEdgeWeight ==
    \E s \in Nodes, e \in Nodes :
        Query(Call("get_edge_weight", s, e, NoneVal, {}), "none", <<>>,
              get_edge_weight(Graph, s, e))

Successors ==
    \E n \in Nodes :
        LET r == successors(adj, n) IN
        Query(Call("successors", n, 0, NoneVal, {}), r.exc, r.ret, NoneVal)

Predecessors ==
    \E n \in Nodes :
        LET r == predecessors(adj, n) IN
        Query(Call("predecessors", n, 0, NoneVal, {}), r.exc, r.ret, NoneVal)

TopSort ==
    Query(Call("top_sort", 0, 0, NoneVal, {}), "none", top_sort(adj), NoneVal)

Dfs ==
    \E n \in Nodes :
        LET r == dfs(adj, n) IN
        Query(Call("dfs", n, 0, NoneVal, {}), r.exc, r.ret, NoneVal)

\* g = self.bfs(n)
BfsCall ==
    \E n \in Nodes :
        /\ call = Idle
        /\ gen' = bfs(n)
        /\ call' = Call("bfs", n, 0, NoneVal, {})
        /\ exc' = "none" /\ ret' = <<>> /\ val' = NoneVal
        /\ UNCHANGED <<cls, adj, nodes, edges>>

\* next(g)
BfsNext ==
    LET r == bfs_next(adj, gen) IN
    /\ gen.state # "none"
    /\ call.op \in {"bfs", "next"}
    /\ gen' = r.gen
    /\ call' = Call("next", gen.start, 0, NoneVal, {})
    /\ exc' = r.exc /\ ret' = r.ret /\ val' = NoneVal
    /\ UNCHANGED <<cls, adj, nodes, edges>>

\* list(self.bfs(n))
BfsList ==
    \E n \in Nodes :
        LET r == list_bfs(adj, n) IN
        Query(Call("list_bfs", n, 0, NoneVal, {}), r.exc, r.ret, NoneVal)

\* the caller drops the result it holds, and the generator if there is one
Discard ==
    /\ call # Idle
    /\ call' = Idle /\ exc' = "none" /\ ret' = <<>> /\ val' = NoneVal
    /\ gen' = NoGen
    /\ UNCHANGED <<cls, adj, nodes, edges>>

Next ==
    \/ AddNode
    \/ AddEdge
    \/ DagAddEdge
    \/ GetNodeValue
    \/ GetEdgeWeight
    \/ Successors
    \/ Predecessors
    \/ TopSort
    \/ Dfs
    \/ BfsCall
    \/ BfsNext
    \/ BfsList
    \/ Discard

Spec == Init /\ [][Next]_vars

----------------------------------------------------------------------------
\* Graph theory used to state the properties

\* the least set holding S and closed under the successors of its members
RECURSIVE Closure(_, _)
Closure(a, S) ==
    LET T == S \cup UNION {Range(a[u]) : u \in S \cap DOMAIN a}
    IN IF T = S THEN S ELSE Closure(a, T)

\* the nodes reachable from u by one or more edges
ReachableFrom(a, u) == IF u \in DOMAIN a THEN Closure(a, Range(a[u])) ELSE {}

Acyclic(a) == \A u \in DOMAIN a : u \notin ReachableFrom(a, u)

\* the position of n in the duplicate-free sequence s
Index(s, n) == CHOOSE i \in DOMAIN s : s[i] = n

\* s lists every node of a once, and every edge points from earlier to later
IsTopologicalOrder(s, a) ==
    /\ Len(s) = Cardinality(DOMAIN a)
    /\ Range(s) = DOMAIN a
    /\ \A u \in DOMAIN a : \A v \in Range(a[u]) : Index(s, u) < Index(s, v)

DagRejected == cls = "DAG" /\ call.op = "add_edge" /\ exc = "ValueError"

----------------------------------------------------------------------------
\* C1: on a DAG object the adjacency relation never holds a cycle, whatever
\* add_node and add_edge calls were made and whether they raised or not.
C1_DagAcyclic == cls = "DAG" => Acyclic(adj)

\* an edge was rejected because a path of two edges leads back to its start
C1_Witness ==
    /\ DagRejected
    /\ call.a # call.b
    /\ call.a \notin Range(adj[call.b])
    /\ call.a \in ReachableFrom(adj, call.b)

\* C2: a DAG.add_edge that raises leaves the node set as it was.
C2_RejectKeepsNodeSet ==
    [][(DagRejected') => (DOMAIN adj' = DOMAIN adj /\ DOMAIN nodes' = DOMAIN nodes)]_vars

\* C3: a DAG.add_edge that raises leaves every adjacency list that existed and
\* the edge attribute map as they were, the list of an endpoint it created is
\* empty, and the attempted edge shows in no query afterwards.
C3_RejectKeepsEdges ==
    [][(DagRejected') =>
        /\ edges' = edges
        /\ \A n \in DOMAIN adj' :
              adj'[n] = (IF n \in DOMAIN adj THEN adj[n] ELSE <<>>)
        /\ call'.b \notin Range(successors(adj', call'.a).ret)
        /\ call'.a \notin Range(predecessors(adj', call'.b).ret)
        /\ (<<call'.a, call'.b>> \in DOMAIN edges'
               => <<call'.a, call'.b>> \in DOMAIN edges)]_vars

\* an edge between two nodes that already had edges was rejected
C3_Witness ==
    /\ DagRejected
    /\ call.a # call.b
    /\ edges # EmptyFn
    /\ adj[call.b] # <<>>

\* C4: DAG.add_edge(src, dst) raises exactly when src = dst or src is reachable
\* from dst before the call; otherwise the edge is present afterwards with the
\* attributes given; an edge that would keep the graph acyclic is never rejected.
C4_RejectIffCycle ==
    [][(cls = "DAG" /\ call'.op = "add_edge") =>
        LET src == call'.a
            dst == call'.b
        IN /\ exc' \in {"none", "ValueError"}
           /\ (exc' = "ValueError") <=> (src = dst \/ src \in ReachableFrom(adj, dst))
           /\ exc' = "none" =>
                 /\ dst \in Range(adj'[src])
                 /\ <<src, dst>> \in DOMAIN edges'
                 /\ edges'[<<src, dst>>] = call'.kw
           /\ Acyclic(add_edge(Graph, src, dst, call'.kw).adj) => exc' = "none"]_vars

\* an edge already present was added again with other attributes, and accepted
C4_Witness ==
    /\ cls = "DAG" /\ call.op = "add_edge" /\ exc = "none"
    /\ call.kw # {}
    /\ Len(adj[call.a]) = 2
    /\ adj[call.a][1] = call.b

\* C5: on a DAG, add_edge(x, x) raises whether or not x was a node, and no node
\* is ever its own successor.
C5_SelfLoopRejected ==
    cls = "DAG" =>
        /\ (call.op = "add_edge" /\ call.a = call.b) => exc = "ValueError"
        /\ \A x \in DOMAIN adj : x \notin Range(adj[x])

\* add_edge(x, x) was rejected for a node x that already had a successor
C5_Witness ==
    /\ DagRejected
    /\ call.a = call.b
    /\ adj[call.a] # <<>>

\* C6: for every node s of the graph, dfs(s) and a drained bfs(s) hold the
\* same set of nodes.
C6_DfsBfsSameSet ==
    (call.op = "dfs" /\ exc = "none") =>
        Range(ret) = Range(list_bfs(adj, call.a).ret)

\* C7: the start node is never in dfs(s), never in a drained bfs(s), and never
\* yielded by the generator of bfs(s).
C7_StartExcluded ==
    /\ (call.op \in {"dfs", "list_bfs"} /\ exc = "none") => call.a \notin Range(ret)
    /\ (call.op = "next" /\ exc = "none") => gen.start \notin Range(ret)

\* C8: on an acyclic graph top_sort returns every node once, each edge
\* pointing from an earlier to a later node.
C8_TopSortValid ==
    (call.op = "top_sort" /\ Acyclic(adj)) => IsTopologicalOrder(ret, adj)

\* top_sort ran on a DAG with two edges whose order is not the ascending one
C8_Witness ==
    /\ cls = "DAG" /\ call.op = "top_sort"
    /\ Cardinality(DOMAIN edges) >= 2
    /\ ret # sorted(ret)

\* C9: bfs(start) with start not a node raises KeyError at the call, and hands
\* no generator to the caller.
C9_BfsRaisesAtCall ==
    (call.op = "bfs" /\ call.a \notin DOMAIN adj) =>
        (exc = "KeyError" /\ gen.state = "none")

\* C10: successors, predecessors and dfs raise KeyError exactly when the node
\* is absent, and leave the three dicts as they were.
C10_QueriesNotFound ==
    [][(call'.op \in {"successors", "predecessors", "dfs"}) =>
        /\ exc' = (IF call'.a \in DOMAIN adj THEN "none" ELSE "KeyError")
        /\ adj' = adj /\ nodes' = nodes /\ edges' = edges]_vars

\* a query raised on a graph that has nodes, and one returned for a node with
\* no edges at all
C10_Witness ==
    /\ call.op \in {"successors", "predecessors", "dfs"}
    /\ \/ exc = "KeyError" /\ edges # EmptyFn
       \/ /\ exc = "none" /\ edges # EmptyFn /\ adj[call.a] = <<>>
          /\ \A u \in DOMAIN adj : call.a \notin Range(adj[u])

\* the number of times n occurs in the sequence s
Count(s, n) == Cardinality({i \in DOMAIN s : s[i] = n})

Added == call.op = "add_edge" /\ exc = "none"

\* C11: no adjacency list holds a target twice; after add_edge(a, b) the list of
\* a holds b exactly once and the attributes stored for (a, b) are exactly the
\* ones of that call; every other entry of the attribute map keeps the value
\* its own most recent add_edge gave it.
C11_NoParallelEdges ==
    [][/\ \A u \in DOMAIN adj' : \A v \in Range(adj'[u]) : Count(adj'[u], v) = 1
       /\ Added' => /\ Count(adj'[call'.a], call'.b) = 1
                    /\ edges'[<<call'.a, call'.b>>] = call'.kw
       /\ \A k \in DOMAIN edges' :
             (~(Added') \/ k # <<call'.a, call'.b>>)
                 => (k \in DOMAIN edges /\ edges'[k] = edges[k])]_vars

\* an edge that was not the last one of its list was added again, with attributes
C11_Witness ==
    /\ cls = "Digraph" /\ Added
    /\ call.kw # {}
    /\ Len(adj[call.a]) >= 2
    /\ adj[call.a][1] = call.b

\* C12: every source and target of an edge, in an adjacency list or in a key of
\* the attribute map, is a node, so no query or traversal on it raises KeyError.
C12_EndpointsAreNodes ==
    LET ends == UNION {{u} \cup Range(adj[u]) : u \in {x \in DOMAIN adj : adj[x] # <<>>}}
                \cup {k[1] : k \in DOMAIN edges} \cup {k[2] : k \in DOMAIN edges}
    IN \A n \in ends :
          /\ n \in DOMAIN adj
          /\ successors(adj, n).exc = "none"
          /\ predecessors(adj, n).exc = "none"
          /\ dfs(adj, n).exc = "none"
          /\ list_bfs(adj, n).exc = "none"

\* an edge was added and is the only edge, its two endpoints the only nodes
C12_Witness ==
    /\ Added
    /\ Cardinality(DOMAIN edges) = 1
    /\ DOMAIN adj = {call.a, call.b}
    /\ call.a # call.b

\* C13 as stated: once n is a node, no add_node(n, other) and no add_edge with n
\* as an endpoint changes get_node_value(n) or the node set.
C13_ValueAndNodeSetKept ==
    [][\A n \in DOMAIN nodes :
          (\/ call'.op = "add_node" /\ call'.a = n
           \/ call'.op = "add_edge" /\ n \in {call'.a, call'.b})
          => /\ get_node_value(Graph', n) = get_node_value(Graph, n)
             /\ DOMAIN adj' = DOMAIN adj
             /\ DOMAIN nodes' = DOMAIN nodes]_vars

\* C13 as amended: once n is a node it stays one and get_node_value(n) never
\* changes; add_node(n, other) leaves the node set as it was, and add_edge adds
\* to it nothing but its own endpoints.
C13_NodeValueKept ==
    [][\A n \in DOMAIN nodes :
          /\ n \in DOMAIN nodes' /\ n \in DOMAIN adj'
          /\ get_node_value(Graph', n) = get_node_value(Graph, n)
          /\ (call'.op = "add_node" /\ call'.a = n)
                => (DOMAIN adj' = DOMAIN adj /\ DOMAIN nodes' = DOMAIN nodes)
          /\ (call'.op = "add_edge")
                => /\ DOMAIN adj' \subseteq DOMAIN adj \cup {call'.a, call'.b}
                   /\ DOMAIN nodes' \subseteq DOMAIN nodes \cup {call'.a, call'.b}]_vars

\* add_node(n) without a value was called on a node that carries a value
C13_Witness ==
    /\ call.op = "add_node"
    /\ call.attr = NoneVal
    /\ call.a \in DOMAIN nodes
    /\ nodes[call.a] # NoneVal

\* the graph with the nodes and edges of a, each adjacency list in ascending order
Canon(a) == [n \in DOMAIN a |-> sorted(a[n])]

\* every order in which a dict can hold the keys S
KeyOrders(S) == {s \in [1..Cardinality(S) -> S] : Range(s) = S}

\* C14: dfs, bfs and top_sort return what they return on the graph with the
\* same nodes and edges built in ascending order, whatever the order in which
\* the edges were appended and the order in which the dict holds its keys.
C14_OrderIndependent ==
    /\ (call.op = "dfs" /\ exc = "none") => ret = dfs(Canon(adj), call.a).ret
    /\ (call.op = "list_bfs" /\ exc = "none") => ret = list_bfs(Canon(adj), call.a).ret
    /\ (call.op = "top_sort") =>
          \A ks \in KeyOrders(DOMAIN adj) : ret = top_sort_keys(Canon(adj), ks)

\* a traversal of two nodes or more ran on a graph whose lists are not ascending
C14_Witness ==
    /\ call.op \in {"dfs", "list_bfs", "top_sort"}
    /\ exc = "none"
    /\ adj # Canon(adj)
    /\ Len(ret) >= 2

\* the value kw gives to the attribute called name, NoneVal when it gives none
Supplied(kw, name) ==
    IF \E v \in {"w1", "w2"} : <<name, v>> \in kw
    THEN CHOOSE v \in {"w1", "w2"} : <<name, v>> \in kw
    ELSE NoneVal

\* what the most recent add_edge(s, e, ...) stored gives to the attribute name
Stored(s, e, name) ==
    IF <<s, e>> \in DOMAIN edges THEN Supplied(edges[<<s, e>>], name) ELSE NoneVal

\* C15 as stated: get_edge_weight never fails and returns what the most recent
\* add_edge(src, dst, ...) supplied under the name "weight", None when nothing.
C15_ReturnsWeight ==
    [][/\ (call'.op = "get_edge_weight") =>
             (exc' = "none" /\ val' = Stored(call'.a, call'.b, "weight"))
       /\ Added' =>
             get_edge_weight(Graph', call'.a, call'.b) = Supplied(call'.kw, "weight")]_vars

\* C15 as amended: the same with the attribute named "edge_weight".
C15_ReturnsEdgeWeight ==
    [][/\ (call'.op = "get_edge_weight") =>
             (exc' = "none" /\ val' = Stored(call'.a, call'.b, "edge_weight"))
       /\ Added' =>
             get_edge_weight(Graph', call'.a, call'.b)
                 = Supplied(call'.kw, "edge_weight")]_vars

\* get_edge_weight was called on an edge and returned a value
C15_Witness ==
    /\ call.op = "get_edge_weight"
    /\ <<call.a, call.b>> \in DOMAIN edges
    /\ val # NoneVal

\* C16: on every graph, cyclic ones and ones with self-loops included, top_sort
\* returns, raises nothing, and its result holds every node exactly once.
C16_TopSortTotal ==
    (call.op = "top_sort") =>
        /\ exc = "none"
        /\ Len(ret) = Cardinality(DOMAIN adj)
        /\ Range(ret) = DOMAIN adj

\* top_sort returned on a graph with a cycle through every node and a self-loop
C16_Witness ==
    /\ call.op = "top_sort"
    /\ \A u \in DOMAIN adj : u \in ReachableFrom(adj, u)
    /\ \E u \in DOMAIN adj : u \in Range(adj[u])
    /\ Cardinality(DOMAIN adj) >= 2

\* The recursive depth-first search: a node is recorded when it is entered, its
\* successors are entered in ascending order, a node already entered is skipped.
RECURSIVE Enter(_, _, _), EnterEach(_, _, _)
Enter(a, n, st) ==
    IF n \in st.entered THEN st
    ELSE EnterEach(a, sorted(a[n]),
                   [entered |-> st.entered \cup {n}, order |-> Append(st.order, n)])

EnterEach(a, ns, st) ==
    IF ns = <<>> THEN st ELSE EnterEach(a, Tail(ns), Enter(a, Head(ns), st))

\* its preorder from s, without s
Preorder(a, s) == Tail(Enter(a, s, [entered |-> {}, order |-> <<>>]).order)

\* C17: dfs(s) has no duplicates and is the preorder of the recursive
\* depth-first search from s, with s removed.
C17_DfsIsPreorder ==
    (call.op = "dfs" /\ exc = "none") =>
        /\ \A n \in Range(ret) : Count(ret, n) = 1
        /\ ret = Preorder(adj, call.a)

\* dfs returned two nodes, the second a successor both of the start and of the
\* first: it is reached twice and listed once
C17_Witness ==
    /\ call.op = "dfs" /\ exc = "none"
    /\ Len(ret) = 2
    /\ ret[2] \in Range(adj[call.a])
    /\ ret[2] \in Range(adj[ret[1]])

\* The length of a shortest path of one edge or more from s to n (0 when there
\* is none), found layer by layer: frontier holds the nodes at distance k.
RECURSIVE DistSearch(_, _, _, _, _)
DistSearch(a, frontier, seen, n, k) ==
    IF n \in frontier THEN k
    ELSE IF frontier = {} THEN 0
    ELSE DistSearch(a, UNION {Range(a[u]) : u \in frontier} \ (seen \cup frontier),
                    seen \cup frontier, n, k + 1)

Dist(a, s, n) == DistSearch(a, Range(a[s]), {}, n, 1)

YieldedBefore(a, s, n) ==
    LET full == list_bfs(a, s).ret
    IN {full[i] : i \in 1..(Index(full, n) - 1)}

\* s, its direct successors, and the successors of the nodes yielded before n
KnownAtYield(a, s, n) ==
    {s} \cup Range(a[s]) \cup UNION {Range(a[m]) : m \in YieldedBefore(a, s, n)}

\* the generator is suspended at the yield of gen.node and has not looked at
\* the successors of that node
Unexpanded ==
    /\ call.op = "next" /\ exc = "none" /\ ret = <<gen.node>>
    /\ gen.visited = KnownAtYield(adj, gen.start, gen.node)
    /\ Range(gen.queue) \subseteq KnownAtYield(adj, gen.start, gen.node)

\* C19: when bfs(s) hands a node n to the consumer, visited and queue hold only
\* s, its direct successors and the successors of the nodes yielded before n;
\* the successors of n are taken in by the next pull and by nothing else.
\* (Every suspended state is left by a step, so the first conjunct covers them all.)
C19_YieldBeforeExpand ==
    [][/\ (gen.state = "suspended") => Unexpanded
       /\ (gen.state = "suspended" /\ gen'.state # "none") =>
             /\ call'.op = "next"
             /\ gen'.visited = gen.visited \cup Range(adj[gen.node])]_vars

\* a node was handed over whose successors include one not yet visited
C19_Witness ==
    /\ gen.state = "suspended"
    /\ Range(adj[gen.node]) \ gen.visited # {}

\* C20: the three dicts agree: nodes and adj have the same keys, and the keys
\* of edges are exactly the pairs (a, b) with b in the adjacency list of a.
C20_MapsAgree ==
    /\ DOMAIN nodes = DOMAIN adj
    /\ DOMAIN edges = UNION {{<<u, v>> : v \in Range(adj[u])} : u \in DOMAIN adj}

\* a DAG insertion was rejected on a graph of three nodes and two edges or more
C20_Witness ==
    /\ DagRejected
    /\ Cardinality(DOMAIN edges) >= 2
    /\ Cardinality(DOMAIN adj) = 3

====
